---- MODULE Spec2Model ----
(***************************************************************************)
(* Model of the score-adjustment engine of mal-score-adjuster              *)
(* (src/src/lib/calculator.ts, lines 1-202) and of the two pipelines that   *)
(* feed it and export its result (src/src/lib/fetcher.ts,                  *)
(* src/src/generate-adjusted-scores-standalone.ts, src/src/index.ts,       *)
(* src/src/lib/exporter.ts), and of the cache of the browser extension's    *)
(* background script that serves the exported file to the content script    *)
(* (src/src/extension/background.js, src/src/extension/scores.js).          *)
(*                                                                         *)
(* Numbers.  A score (mean, adjustedScore, cap) is an integer number of    *)
(* thousandths: 8290 is 8.29.  A percentile is a record [num, den, low]    *)
(* standing for the rational num/den (in percent); low records that the    *)
(* IEEE-754 double the code computes lies just below that rational, which  *)
(* is what decides Math.floor when the exact product is an integer.        *)
(* startYear 0 stands for null: the code only ever tests its truthiness.   *)
(* NaN stands for the JavaScript values NaN and undefined.                 *)
(***************************************************************************)
EXTENDS Integers, Sequences, FiniteSets, TLC

VARIABLES
    CONFIG,            \* the baseline range of the exported CONFIG object
    animeList,         \* the input collection handed to calculateAdjustedScores
    pc,                \* position inside calculateAdjustedScores
    yearStats,         \* const yearStats = buildYearStats(animeList)
    baseline,          \* const baseline = buildBaselineScores(animeList)
    results,           \* const results: AdjustedAnimeData[]
    idx,               \* number of items the for-loop has processed
    percentileInYear,  \* local of the last loop iteration
    adjustedScore,     \* local of the last loop iteration, after the caps
    exportData,        \* exportData.anime of exportToJSON
    pipeline,          \* the caller: "none", "standalone" or "database"
    source,            \* the ranking the API serves, or the rows of the table
    fetchConfig,       \* the MalApiConfig handed to fetchAnimeFromMAL
    offset,            \* let offset of fetchAnimeFromMAL
    fetched,           \* const animeList of fetchAnimeFromMAL
    skipped,           \* let skipped of fetchAnimeFromMAL
    fetchLog,          \* the requests, waits and errors of fetchAnimeFromMAL
    adjustedScores,    \* let adjustedScores of background.js
    published,         \* the version of adjusted-scores.json at the URL
    calls,             \* the calls of fetchAdjustedScores and their positions
    requests,          \* the runs of applyAdjustedScores of content scripts
    extLog             \* what the background script has loaded, failed, sent

\* the state of the callers of calculateAdjustedScores before it runs
fetchVars == <<pipeline, source, fetchConfig, offset, fetched, skipped,
               fetchLog>>

\* the state of calculateAdjustedScores and of exportToJSON
calcVars == <<CONFIG, animeList, pc, yearStats, baseline, results, idx,
              percentileInYear, adjustedScore, exportData>>

\* the state of the browser extension
extVars == <<adjustedScores, published, calls, requests, extLog>>

vars == <<CONFIG, animeList, pc, yearStats, baseline, results, idx,
          percentileInYear, adjustedScore, exportData, fetchVars, extVars>>

-----------------------------------------------------------------------------
(* Bounds and program constants *)

MaxItems == 22

NULL == 0

NaN == -100000

MIN_YEAR_COUNT == 10

CAP_95 == 8290

CAP_100 == 8880

DEFAULT_PERCENTILE == 50

MIN_SCORING_USERS == 25000

\* the fallback median of calculateYearStatistics (7.30)
FALLBACK_MEDIAN == 7300

-----------------------------------------------------------------------------
(* Generic helpers *)

Min(a, b) == IF a <= b THEN a ELSE b

Range(s) == {s[k] : k \in DOMAIN s}

\* Array.prototype.sort((a, b) => a - b) on numbers: ascending, stable.
SortAsc(s) ==
    LET n == Len(s)
        pos(i) == Cardinality({j \in 1..n : s[j] < s[i]})
                  + Cardinality({j \in 1..(i-1) : s[j] = s[i]}) + 1
    IN  [k \in 1..n |-> s[CHOOSE i \in 1..n : pos(i) = k]]

\* a < b on JavaScript numbers: false as soon as one side is NaN
NumLess(a, b) == a # NaN /\ b # NaN /\ a < b

\* a <= b on JavaScript numbers
NumLeq(a, b) == a # NaN /\ b # NaN /\ a <= b

\* Math.min(a, b): NaN as soon as one side is NaN or undefined
MathMin(a, b) == IF a = NaN \/ b = NaN THEN NaN ELSE Min(a, b)

\* Math.round(x * 100) / 100: the nearest whole number of hundredths, a half
\* going up; NaN stays NaN.
Round2(x) == IF x = NaN THEN NaN ELSE 10 * ((x + 5) \div 10)

\* Math.round((a - b) * 100) / 100
RoundDiff(a, b) == IF a = NaN \/ b = NaN THEN NaN ELSE Round2(a - b)

-----------------------------------------------------------------------------
(* Math utilities *)

\* calculateMedian, returned as TWICE the median (in thousandths) so that the
\* mean of the two central values stays an integer.  For an empty array the
\* code adds two undefined values: NaN.
calculateMedian(scores) ==
    LET sorted == SortAsc(scores)
        n == Len(sorted)
        mid == n \div 2
    IN  IF n = 0 THEN NaN
        ELSE IF n % 2 = 0 THEN sorted[mid] + sorted[mid + 1]
        ELSE 2 * sorted[mid + 1]

\* Reduced fractions c/n (n <= 45) for which the double (c / n) * 100 / 100
\* lies below c/n, so that Math.floor(((c / n) * 100 / 100) * N) is one less
\* than c*N/n whenever that quotient is an integer.
LowFractions ==
    { <<1, 3>>, <<2, 3>>, <<1, 6>>, <<1, 12>>, <<11, 12>>, <<7, 15>>,
      <<14, 15>>, <<1, 17>>, <<2, 17>>, <<4, 17>>, <<8, 17>>, <<11, 17>>,
      <<16, 17>>, <<13, 18>>, <<5, 21>>, <<10, 21>>, <<20, 21>>,
      <<15, 22>>, <<13, 23>>, <<19, 23>>, <<1, 24>>, <<11, 24>>,
      <<19, 24>>, <<15, 26>>, <<19, 26>>, <<7, 29>>, <<14, 29>>,
      <<21, 29>>, <<28, 29>>, <<7, 30>>, <<7, 31>>, <<14, 31>>, <<23, 31>>,
      <<28, 31>>, <<7, 33>>, <<14, 33>>, <<25, 33>>, <<28, 33>>,
      <<31, 33>>, <<1, 34>>, <<11, 34>>, <<23, 35>>, <<33, 35>>,
      <<13, 36>>, <<35, 36>>, <<1, 37>>, <<2, 37>>, <<4, 37>>, <<8, 37>>,
      <<16, 37>>, <<32, 37>>, <<25, 39>>, <<37, 39>>, <<5, 42>>,
      <<15, 43>>, <<21, 43>>, <<23, 43>>, <<30, 43>>, <<31, 43>>,
      <<42, 43>>, <<15, 44>>, <<13, 45>>, <<26, 45>>, <<29, 45>> }

\* Scores of two decimals for which the double estimatePercentile returns
\* lies below the exact value in the same way.
LowEstimates ==
    {6600, 6800, 7050, 7100, 7300, 7350, 7550, 7600, 7800, 7850, 8200}

\* The loop of calculatePercentile: count the leading scores below score.
RECURSIVE CountBelow(_, _, _)
CountBelow(sortedScores, score, k) ==
    IF k > Len(sortedScores) THEN 0
    ELSE IF sortedScores[k] < score
         THEN 1 + CountBelow(sortedScores, score, k + 1)
         ELSE 0

\* The scan with <= in place of <: scores equal to the value are counted.
calculatePercentileLeq(sortedScores, score) ==
    LET count == CountBelow(sortedScores, score + 1, 1)
        n == Len(sortedScores)
    IN  [num |-> 100 * count, den |-> n,
         low |-> \E f \in LowFractions : f[1] * n = f[2] * count]

calculatePercentile(sortedScores, score) ==
    LET count == CountBelow(sortedScores, score, 1)
        n == Len(sortedScores)
    IN  [num |-> 100 * count, den |-> n,
         low |-> \E f \in LowFractions : f[1] * n = f[2] * count]

getIndex(n, percentile) ==
    LET exact == (percentile.num * n) \div (percentile.den * 100)
        whole == (percentile.num * n) % (percentile.den * 100) = 0
    IN  IF percentile.low /\ whole THEN exact - 1 ELSE exact

\* The lookup with the index wrapped around (index % N) instead of held at
\* the last position.
getScoreAtPercentileWrapped(sortedScores, percentile) ==
    LET n == Len(sortedScores)
        index == getIndex(n, percentile)
    IN  IF n = 0 THEN NaN
        ELSE sortedScores[(index % n) + 1]

getScoreAtPercentile(sortedScores, percentile) ==
    LET n == Len(sortedScores)
        index == getIndex(n, percentile)
    IN  IF n = 0 THEN NaN
        ELSE sortedScores[Min(index, n - 1) + 1]

\* The estimator with the slope of the 7.5-8.0 segment (20) copied into the
\* 8.0-8.5 segment, whose slope is 15.
estimatePercentileSteep(score) ==
    LET low == score \in LowEstimates
    IN  IF score >= 8500 THEN [num |-> score, den |-> 100, low |-> low]
        ELSE IF score >= 8000
             THEN [num |-> 7000 + 4 * (score - 8000), den |-> 100, low |-> low]
        ELSE IF score >= 7500
             THEN [num |-> 5000 + 4 * (score - 7500), den |-> 100, low |-> low]
        ELSE IF score >= 7000
             THEN [num |-> 3000 + 4 * (score - 7000), den |-> 100, low |-> low]
        ELSE IF score >= 6500
             THEN [num |-> 1500 + 3 * (score - 6500), den |-> 100, low |-> low]
        ELSE [num |-> 3 * score, den |-> 1300, low |-> low]

estimatePercentile(score) ==
    LET low == score \in LowEstimates
    IN  IF score >= 8500 THEN [num |-> score, den |-> 100, low |-> low]
        ELSE IF score >= 8000
             THEN [num |-> 7000 + 3 * (score - 8000), den |-> 100, low |-> low]
        ELSE IF score >= 7500
             THEN [num |-> 5000 + 4 * (score - 7500), den |-> 100, low |-> low]
        ELSE IF score >= 7000
             THEN [num |-> 3000 + 4 * (score - 7000), den |-> 100, low |-> low]
        ELSE IF score >= 6500
             THEN [num |-> 1500 + 3 * (score - 6500), den |-> 100, low |-> low]
        ELSE [num |-> 3 * score, den |-> 1300, low |-> low]

\* percentile >= k for a whole number k
PctGeq(percentile, k) == percentile.num >= k * percentile.den

\* equality of two percentiles as numbers
PctEq(p, q) == p.num * q.den = q.num * p.den

\* p < q on the doubles the two percentiles stand for
PctLess(p, q) ==
    \/ p.num * q.den < q.num * p.den
    \/ p.num * q.den = q.num * p.den /\ p.low /\ ~q.low

-----------------------------------------------------------------------------
(* Builders *)

\* the scores of the items of list whose index is in keep, in input order
RECURSIVE SelectMeans(_, _, _)
SelectMeans(list, keep, k) ==
    IF k > Len(list) THEN << >>
    ELSE IF k \in keep
         THEN <<list[k].mean>> \o SelectMeans(list, keep, k + 1)
         ELSE SelectMeans(list, keep, k + 1)

\* animeByYear.get(year), as the scores of its members
yearAnime(list, year) ==
    SelectMeans(list, {k \in DOMAIN list : list[k].startYear = year}, 1)

\* The builder with the threshold test written > instead of >=.
buildYearStatsStrict(list) ==
    LET years == {list[k].startYear : k \in DOMAIN list} \ {NULL}
        kept == {y \in years : Len(yearAnime(list, y)) > MIN_YEAR_COUNT}
    IN  [y \in kept |->
            LET scores == SortAsc(yearAnime(list, y))
            IN  [year |-> y, scores |-> scores,
                 medianScore |-> calculateMedian(scores),
                 count |-> Len(scores)]]

buildYearStats(list) ==
    LET years == {list[k].startYear : k \in DOMAIN list} \ {NULL}
        kept == {y \in years : Len(yearAnime(list, y)) >= MIN_YEAR_COUNT}
    IN  [y \in kept |->
            LET scores == SortAsc(yearAnime(list, y))
            IN  [year |-> y, scores |-> scores,
                 medianScore |-> calculateMedian(scores),
                 count |-> Len(scores)]]

\* The builder with the upper end of the range excluded (< instead of <=).
buildBaselineScoresOpenEnd(list, config) ==
    LET inRange(a) == /\ a.startYear # NULL
                      /\ a.startYear >= config.BASELINE_START_YEAR
                      /\ a.startYear < config.BASELINE_END_YEAR
        sorted == SortAsc(SelectMeans(list,
                            {k \in DOMAIN list : inRange(list[k])}, 1))
    IN  [scores |-> sorted, median |-> calculateMedian(sorted)]

buildBaselineScores(list, config) ==
    LET inRange(a) == /\ a.startYear # NULL
                      /\ a.startYear >= config.BASELINE_START_YEAR
                      /\ a.startYear <= config.BASELINE_END_YEAR
        sorted == SortAsc(SelectMeans(list,
                            {k \in DOMAIN list : inRange(list[k])}, 1))
    IN  [scores |-> sorted, median |-> calculateMedian(sorted)]

-----------------------------------------------------------------------------
(* The body of the for-loop of calculateAdjustedScores *)

hasStats(stats, anime) ==
    anime.startYear # NULL /\ anime.startYear \in DOMAIN stats

\* The selection without its estimator branch: an item of a cohort without
\* statistics keeps the default.
percentileOfNoEstimate(stats, anime) ==
    IF hasStats(stats, anime)
    THEN calculatePercentile(stats[anime.startYear].scores, anime.mean)
    ELSE [num |-> DEFAULT_PERCENTILE, den |-> 1, low |-> FALSE]

percentileOf(stats, anime) ==
    IF hasStats(stats, anime)
    THEN calculatePercentile(stats[anime.startYear].scores, anime.mean)
    ELSE IF anime.startYear # NULL
         THEN estimatePercentile(anime.mean)
         ELSE [num |-> DEFAULT_PERCENTILE, den |-> 1, low |-> FALSE]

applyCaps(score, percentile) ==
    IF PctGeq(percentile, 99) THEN MathMin(score, CAP_100)
    ELSE IF PctGeq(percentile, 95) THEN MathMin(score, CAP_95)
    ELSE score

cappedScore(stats, base, anime) ==
    LET p == percentileOf(stats, anime)
    IN  applyCaps(getScoreAtPercentile(base.scores, p), p)

\* The result with the difference taken the other way round (mean - adjusted).
makeResultReversed(anime, score) ==
    [adjustedScore |-> Round2(score),
     adjustedRank |-> 0,
     scoreDifference |-> RoundDiff(anime.mean, score)] @@ anime

\* { ...anime, adjustedScore, adjustedRank, scoreDifference }
makeResult(anime, score) ==
    [adjustedScore |-> Round2(score),
     adjustedRank |-> 0,
     scoreDifference |-> RoundDiff(score, anime.mean)] @@ anime

\* A descending sort that is not stable: items the comparator calls equal
\* come out in the reverse of their order in rs.
sortByAdjustedUnstable(rs) ==
    LET n == Len(rs)
        before(a, b) == NumLess(b.adjustedScore, a.adjustedScore)
        pos(i) == Cardinality({j \in 1..n : before(rs[j], rs[i])})
                  + Cardinality({j \in (i+1)..n :
                                    /\ ~before(rs[j], rs[i])
                                    /\ ~before(rs[i], rs[j])}) + 1
    IN  [k \in 1..n |-> rs[CHOOSE i \in 1..n : pos(i) = k]]

\* results.sort((a, b) => b.adjustedScore - a.adjustedScore): stable; a
\* comparator value of NaN counts as 0.
sortByAdjusted(rs) ==
    LET n == Len(rs)
        before(a, b) == NumLess(b.adjustedScore, a.adjustedScore)
        pos(i) == Cardinality({j \in 1..n : before(rs[j], rs[i])})
                  + Cardinality({j \in 1..(i-1) :
                                    /\ ~before(rs[j], rs[i])
                                    /\ ~before(rs[i], rs[j])}) + 1
    IN  [k \in 1..n |-> rs[CHOOSE i \in 1..n : pos(i) = k]]

\* A ranking in which items of equal adjusted score share a rank.
assignRanksShared(rs) ==
    [k \in 1..Len(rs) |->
        [rs[k] EXCEPT !.adjustedRank =
            1 + Cardinality({j \in 1..Len(rs) :
                    NumLess(rs[k].adjustedScore, rs[j].adjustedScore)})]]

\* results.forEach((anime, index) => { anime.adjustedRank = index + 1 })
assignRanks(rs) ==
    [k \in 1..Len(rs) |-> [rs[k] EXCEPT !.adjustedRank = (k - 1) + 1]]

-----------------------------------------------------------------------------
(* Inputs *)

\* <<number of items, first score, score step>>
RunShapes ==
    { <<1, 6000, 0>>, <<1, 9600, 0>>, <<3, 7000, 500>>, <<3, 6000, 500>>,
      <<2, 8000, 500>>, <<9, 7000, 50>>, <<10, 7000, 50>>,
      <<21, 7000, 50>> }

\* the shapes allowed for the last run of an input
TailShapes == {s \in RunShapes : s[1] <= 2}

Configs ==
    { [BASELINE_START_YEAR |-> 2012, BASELINE_END_YEAR |-> 2014],
      [BASELINE_START_YEAR |-> 2010, BASELINE_END_YEAR |-> 2010] }

\* no year, a year inside the baseline range, a year after it
YearsFor(config) == {NULL, config.BASELINE_START_YEAR, 2015}

Run(year, shape) ==
    [k \in 1..shape[1] |->
        [mean |-> shape[2] + (k - 1) * shape[3], startYear |-> year]]

RunsOf(years, shapes) == {<< >>} \cup {Run(y, s) : y \in years, s \in shapes}

WithIds(list) ==
    [k \in 1..Len(list) |->
        [id |-> k, mean |-> list[k].mean, startYear |-> list[k].startYear]]

\* an input is up to three runs of items, one after the other
InputsFor(config) ==
    LET years == YearsFor(config)
        runs == RunsOf(years, RunShapes)
        tails == RunsOf(years, TailShapes)
    IN  {WithIds(t[1] \o t[2] \o t[3]) :
            t \in {u \in runs \X runs \X tails :
                      Len(u[1]) + Len(u[2]) + Len(u[3]) <= MaxItems}}

\* the number 0 as a percentile
NoPercentile == [num |-> 0, den |-> 1, low |-> FALSE]

-----------------------------------------------------------------------------
(* exportToJSON *)

\* the entry exportToJSON writes for one item; a ?? b is b when a is absent
exportEntry(anime) ==
    [originalScore |-> IF "originalScore" \in DOMAIN anime
                       THEN anime.originalScore ELSE anime.mean,
     adjustedScore |-> anime.adjustedScore,
     adjustedRank |-> IF "adjustedRank" \in DOMAIN anime
                      THEN anime.adjustedRank ELSE 0,
     year |-> anime.startYear,
     percentileInYear |-> IF "percentileInYear" \in DOMAIN anime
                          THEN anime.percentileInYear ELSE NoPercentile]

\* exportData.anime: for each id the entry of the last item carrying it
exportedAnime(adjustedAnimes) ==
    [id \in {adjustedAnimes[k].id : k \in DOMAIN adjustedAnimes} |->
        LET last == CHOOSE k \in DOMAIN adjustedAnimes :
                        /\ adjustedAnimes[k].id = id
                        /\ \A j \in DOMAIN adjustedAnimes :
                              adjustedAnimes[j].id = id => j <= k
        IN  exportEntry(adjustedAnimes[last])]

\* exportToJSON(adjustedAnimes, config); rest holds the arguments the caller
\* passes after adjustedAnimes.  The function reads
\* config.BASELINE_START_YEAR for the metadata before it builds any entry:
\* without a config argument that read throws a TypeError and nothing is
\* written.
exportToJSON(adjustedAnimes, rest) ==
    IF Len(rest) = 0
    THEN [thrown |-> TRUE, anime |-> << >>]
    ELSE [thrown |-> FALSE, anime |-> exportedAnime(adjustedAnimes)]

-----------------------------------------------------------------------------
(* The two pipelines: fetchAnimeFromMAL and fetchAnimeFromDatabase *)

\* the data of the response to a ranking request with limit and offset
servePage(ranking, limit, off) ==
    SubSeq(ranking, off + 1, Min(off + limit, Len(ranking)))

\* The filter with <= in place of <: a node exactly at the minimum is
\* skipped.
skipsNodeAtMinimum(node, minScoringUsers) ==
    \/ node.num_scoring_users <= minScoringUsers
    \/ node.mean = NaN

\* the two continue statements of the loop over data.data
skipsNode(node, minScoringUsers) ==
    \/ node.num_scoring_users < minScoringUsers
    \/ node.mean = NaN

\* the object pushed for a node that is kept
toFetchedAnime(node) ==
    [id |-> node.id, mean |-> node.mean, rank |-> node.rank,
     startYear |-> node.start_season,
     numScoringUsers |-> node.num_scoring_users]

\* the loop over data.data: the kept nodes of one page, in page order
RECURSIVE processPage(_, _, _)
processPage(data, minScoringUsers, k) ==
    IF k > Len(data) THEN << >>
    ELSE IF skipsNode(data[k], minScoringUsers)
         THEN processPage(data, minScoringUsers, k + 1)
         ELSE <<toFetchedAnime(data[k])>>
                  \o processPage(data, minScoringUsers, k + 1)

convertToAnimeData(fetchedAnime) ==
    [k \in 1..Len(fetchedAnime) |->
        [id |-> fetchedAnime[k].id, mean |-> fetchedAnime[k].mean,
         rank |-> fetchedAnime[k].rank,
         startYear |-> fetchedAnime[k].startYear,
         numScoringUsers |-> fetchedAnime[k].numScoringUsers]]

\* orderBy: { rank: "asc" } on rows of distinct rank
sortByRank(rows) ==
    LET n == Len(rows)
        pos(i) == Cardinality({j \in 1..n : rows[j].rank < rows[i].rank}) + 1
    IN  [k \in 1..n |-> rows[CHOOSE i \in 1..n : pos(i) = k]]

\* where: { numScoringUsers: { gte: CONFIG.MIN_SCORING_USERS } }
RECURSIVE whereScoringUsers(_, _)
whereScoringUsers(rows, k) ==
    IF k > Len(rows) THEN << >>
    ELSE IF rows[k].numScoringUsers >= MIN_SCORING_USERS
         THEN <<rows[k]>> \o whereScoringUsers(rows, k + 1)
         ELSE whereScoringUsers(rows, k + 1)

fetchAnimeFromDatabase(rows) ==
    LET animes == sortByRank(whereScoringUsers(rows, 1))
    IN  [k \in 1..Len(animes) |->
            [id |-> animes[k].id, rank |-> animes[k].rank,
             mean |-> animes[k].mean, startYear |-> animes[k].startYear,
             numScoringUsers |-> animes[k].numScoringUsers]]

\* The re-ranking over a copy sorted by a sort that is not stable: items of
\* equal adjusted score come out in the reverse of their order in rs.
rankBySortedCopyUnstable(rs) ==
    LET n == Len(rs)
        before(a, b) == NumLess(b.adjustedScore, a.adjustedScore)
        pos(i) == Cardinality({j \in 1..n : before(rs[j], rs[i])})
                  + Cardinality({j \in (i+1)..n :
                                    /\ ~before(rs[j], rs[i])
                                    /\ ~before(rs[i], rs[j])}) + 1
    IN  [k \in 1..n |-> [rs[k] EXCEPT !.adjustedRank = (pos(k) - 1) + 1]]

\* sortedByAdjusted = adjustedAnimes.slice().sort(...), then the forEach that
\* sets adjustedRank = index + 1 on the objects both arrays share
rankBySortedCopy(rs) ==
    LET n == Len(rs)
        before(a, b) == NumLess(b.adjustedScore, a.adjustedScore)
        pos(i) == Cardinality({j \in 1..n : before(rs[j], rs[i])})
                  + Cardinality({j \in 1..(i-1) :
                                    /\ ~before(rs[j], rs[i])
                                    /\ ~before(rs[i], rs[j])}) + 1
    IN  [k \in 1..n |-> [rs[k] EXCEPT !.adjustedRank = (pos(k) - 1) + 1]]

-----------------------------------------------------------------------------
(* Inputs of the pipelines *)

MaxSource == 3

\* <<mean, num_scoring_users, start_season year>> of a ranking node
NodeKinds ==
    { <<7500, 24999, 2012>>, <<7500, 25000, 2012>>, <<8000, 25001, NULL>>,
      <<NaN, 25001, 2012>>, <<NaN, 24999, NULL>>, <<7000, 25000, NULL>>,
      <<7000, 26000, 2013>> }

\* rows are written from fetched items, so every row has a mean
RowKinds == {kind \in NodeKinds : kind[1] # NaN}

KindSeqs(kinds) ==
    UNION {[1..n -> kinds] : n \in 0..MaxSource}

\* a ranking: the nodes carry their position as id and rank
Rankings ==
    {[k \in 1..Len(q) |->
        [id |-> k, rank |-> k, mean |-> q[k][1],
         num_scoring_users |-> q[k][2], start_season |-> q[k][3]]] :
     q \in KindSeqs(NodeKinds)}

Tables ==
    {[k \in 1..Len(q) |->
        [id |-> k, rank |-> k, mean |-> q[k][1],
         numScoringUsers |-> q[k][2], startYear |-> q[k][3]]] :
     q \in KindSeqs(RowKinds)}

Limits == {1, 2}

MaxEntriesValues == {1, 2, 3}

\* the call of the standalone script, with limit and maxEntries scaled down
FetchConfigs ==
    [minScoringUsers : {MIN_SCORING_USERS}, limit : Limits,
     maxEntries : MaxEntriesValues]

NoFetchConfig == [minScoringUsers |-> 0, limit |-> 0, maxEntries |-> 0]

-----------------------------------------------------------------------------
(* The state machine *)

\* the {} that background.js starts with
EmptyObject == 0

\* the extension is not running
ExtensionIdle ==
    /\ adjustedScores = EmptyObject
    /\ published = 1
    /\ calls = << >>
    /\ requests = << >>
    /\ extLog = << >>

Init ==
    /\ CONFIG \in Configs
    /\ animeList \in InputsFor(CONFIG)
    /\ pc = "start"
    /\ yearStats = [y \in {} |-> 0]
    /\ baseline = [scores |-> << >>, median |-> NaN]
    /\ results = << >>
    /\ idx = 0
    /\ percentileInYear = NoPercentile
    /\ adjustedScore = NaN
    /\ exportData = << >>
    /\ pipeline = "none"
    /\ source = << >>
    /\ fetchConfig = NoFetchConfig
    /\ offset = 0
    /\ fetched = << >>
    /\ skipped = 0
    /\ fetchLog = << >>
    /\ ExtensionIdle

BuildYearStats ==
    /\ pc = "start"
    /\ yearStats' = buildYearStats(animeList)
    /\ pc' = "baseline"
    /\ UNCHANGED <<CONFIG, animeList, baseline, results, idx,
                   percentileInYear, adjustedScore, exportData,
                   fetchVars, extVars>>

\* ascending by score, stable: what animeList.sort((a, b) => a.mean - b.mean)
\* leaves in the array
sortItemsByMean(list) ==
    LET n == Len(list)
        pos(i) == Cardinality({j \in 1..n : list[j].mean < list[i].mean})
                  + Cardinality({j \in 1..(i-1) :
                                    list[j].mean = list[i].mean}) + 1
    IN  [k \in 1..n |-> list[CHOOSE i \in 1..n : pos(i) = k]]

\* The step with the baseline taken by sorting the input array itself
\* instead of an array of its scores.
BuildBaselineScoresInPlace ==
    /\ pc = "baseline"
    /\ baseline' = buildBaselineScores(animeList, CONFIG)
    /\ animeList' = sortItemsByMean(animeList)
    /\ pc' = "loop"
    /\ UNCHANGED <<CONFIG, yearStats, results, idx,
                   percentileInYear, adjustedScore, exportData,
                   fetchVars, extVars>>

BuildBaselineScores ==
    /\ pc = "baseline"
    /\ baseline' = buildBaselineScores(animeList, CONFIG)
    /\ pc' = "loop"
    /\ UNCHANGED <<CONFIG, animeList, yearStats, results, idx,
                   percentileInYear, adjustedScore, exportData,
                   fetchVars, extVars>>

AdjustItem ==
    /\ pc = "loop"
    /\ idx < Len(animeList)
    /\ LET anime == animeList[idx + 1]
           p == percentileOf(yearStats, anime)
           score == cappedScore(yearStats, baseline, anime)
       IN  /\ percentileInYear' = p
           /\ adjustedScore' = score
           /\ results' = Append(results, makeResult(anime, score))
    /\ idx' = idx + 1
    /\ UNCHANGED <<CONFIG, animeList, pc, yearStats, baseline, exportData,
                   fetchVars, extVars>>

SortAndRank ==
    /\ pc = "loop"
    /\ idx = Len(animeList)
    /\ results' = assignRanks(sortByAdjusted(results))
    /\ pc' = "done"
    /\ UNCHANGED <<CONFIG, animeList, yearStats, baseline, idx,
                   percentileInYear, adjustedScore, exportData,
                   fetchVars, extVars>>

\* exportToJSON(adjustedAnimes) of the standalone script, right after
\* calculateAdjustedScores has returned: the call passes no config, the
\* TypeError goes to the catch of main, which ends the process
ExportToJSON ==
    /\ pc = "done"
    /\ pipeline # "database"
    /\ LET out == exportToJSON(results, << >>)
       IN  IF out.thrown
           THEN exportData' = exportData /\ pc' = "exportFailed"
           ELSE exportData' = out.anime /\ pc' = "exported"
    /\ UNCHANGED <<CONFIG, animeList, yearStats, baseline, results, idx,
                   percentileInYear, adjustedScore, fetchVars, extVars>>

Next ==
    \/ BuildYearStats
    \/ BuildBaselineScores
    \/ AdjustItem
    \/ SortAndRank
    \/ ExportToJSON

Spec == Init /\ [][Next]_vars

-----------------------------------------------------------------------------
(* calculateAdjustedScores on one item of a year without statistics *)

\* every score of two decimals from 0.00 to 10.00
ScoreGrid == {10 * k : k \in 0..1000}

EstimateInit ==
    /\ CONFIG = [BASELINE_START_YEAR |-> 2012, BASELINE_END_YEAR |-> 2014]
    /\ animeList \in {WithIds(<<[mean |-> score, startYear |-> 2015]>>) :
                         score \in ScoreGrid}
    /\ pc = "start"
    /\ yearStats = [y \in {} |-> 0]
    /\ baseline = [scores |-> << >>, median |-> NaN]
    /\ results = << >>
    /\ idx = 0
    /\ percentileInYear = NoPercentile
    /\ adjustedScore = NaN
    /\ exportData = << >>
    /\ pipeline = "none"
    /\ source = << >>
    /\ fetchConfig = NoFetchConfig
    /\ offset = 0
    /\ fetched = << >>
    /\ skipped = 0
    /\ fetchLog = << >>
    /\ ExtensionIdle

EstimateSpec == EstimateInit /\ [][Next]_vars

-----------------------------------------------------------------------------
(* The pipelines around calculateAdjustedScores *)

PipelineInit ==
    /\ CONFIG \in Configs
    /\ pipeline \in {"standalone", "database"}
    /\ \/ /\ pipeline = "standalone"
          /\ source \in Rankings
          /\ fetchConfig \in FetchConfigs
          /\ pc = "fetch"
       \/ /\ pipeline = "database"
          /\ source \in Tables
          /\ fetchConfig = NoFetchConfig
          /\ pc = "read"
    /\ offset = 0
    /\ fetched = << >>
    /\ skipped = 0
    /\ fetchLog = << >>
    /\ ExtensionIdle
    /\ animeList = << >>
    /\ yearStats = [y \in {} |-> 0]
    /\ baseline = [scores |-> << >>, median |-> NaN]
    /\ results = << >>
    /\ idx = 0
    /\ percentileInYear = NoPercentile
    /\ adjustedScore = NaN
    /\ exportData = << >>

\* fetch(url, ...) for the page at an offset
RequestAt(o) == [type |-> "request", offset |-> o]

\* await new Promise((resolve) => setTimeout(resolve, rateLimit))
RateLimitWait == [type |-> "wait", offset |-> 0]

\* console.error(`Error fetching at offset ${offset}:`, error)
ErrorAt(o) == [type |-> "error", offset |-> o]

\* The iteration with the rate-limit wait taken after every page, the last
\* one included.
FetchPageAlwaysWaits ==
    /\ pc = "fetch"
    /\ offset < fetchConfig.maxEntries
    /\ LET data == servePage(source, fetchConfig.limit, offset)
           kept == processPage(data, fetchConfig.minScoringUsers, 1)
       IN  /\ fetched' = fetched \o kept
           /\ skipped' = skipped + (Len(data) - Len(kept))
    /\ offset' = offset + fetchConfig.limit
    /\ fetchLog' = fetchLog \o <<RequestAt(offset), RateLimitWait>>
    /\ UNCHANGED <<CONFIG, animeList, pc, yearStats, baseline, results, idx,
                   percentileInYear, adjustedScore, exportData, pipeline,
                   source, fetchConfig, extVars>>

\* one iteration of the while loop of fetchAnimeFromMAL whose request succeeds
FetchPage ==
    /\ pc = "fetch"
    /\ offset < fetchConfig.maxEntries
    /\ LET data == servePage(source, fetchConfig.limit, offset)
           kept == processPage(data, fetchConfig.minScoringUsers, 1)
       IN  /\ fetched' = fetched \o kept
           /\ skipped' = skipped + (Len(data) - Len(kept))
    /\ offset' = offset + fetchConfig.limit
    /\ fetchLog' = fetchLog \o
          IF offset + fetchConfig.limit < fetchConfig.maxEntries
          THEN <<RequestAt(offset), RateLimitWait>>
          ELSE <<RequestAt(offset)>>
    /\ UNCHANGED <<CONFIG, animeList, pc, yearStats, baseline, results, idx,
                   percentileInYear, adjustedScore, exportData, pipeline,
                   source, fetchConfig, extVars>>

\* The failing iteration with the error logged and swallowed: the loop goes
\* on with the next page.
FetchPageFailsSilently ==
    /\ pc = "fetch"
    /\ offset < fetchConfig.maxEntries
    /\ fetchLog' = fetchLog \o <<RequestAt(offset), ErrorAt(offset)>>
    /\ offset' = offset + fetchConfig.limit
    /\ UNCHANGED <<CONFIG, animeList, pc, yearStats, baseline, results, idx,
                   percentileInYear, adjustedScore, exportData, pipeline,
                   source, fetchConfig, fetched, skipped, extVars>>

\* one iteration whose request fails (fetch rejects, or the response is not
\* ok): the catch block logs the error and throws it again, fetchAnimeFromMAL
\* rejects, and the catch of main ends the process with exit code 1
FetchPageFails ==
    /\ pc = "fetch"
    /\ offset < fetchConfig.maxEntries
    /\ fetchLog' = fetchLog \o <<RequestAt(offset), ErrorAt(offset)>>
    /\ pc' = "failed"
    /\ UNCHANGED <<CONFIG, animeList, yearStats, baseline, results, idx,
                   percentileInYear, adjustedScore, exportData, pipeline,
                   source, fetchConfig, offset, fetched, skipped, extVars>>

\* the loop has ended: fetchAnimeFromMAL returns, main converts the items and
\* calls calculateAdjustedScores
ConvertToAnimeData ==
    /\ pc = "fetch"
    /\ offset >= fetchConfig.maxEntries
    /\ animeList' = convertToAnimeData(fetched)
    /\ pc' = "start"
    /\ UNCHANGED <<CONFIG, yearStats, baseline, results, idx,
                   percentileInYear, adjustedScore, exportData,
                   fetchVars, extVars>>

\* main of index.ts reads the table and calls calculateAdjustedScores
FetchAnimeFromDatabase ==
    /\ pc = "read"
    /\ animeList' = fetchAnimeFromDatabase(source)
    /\ pc' = "start"
    /\ UNCHANGED <<CONFIG, yearStats, baseline, results, idx,
                   percentileInYear, adjustedScore, exportData,
                   fetchVars, extVars>>

\* main of index.ts sorts a copy of the returned collection and assigns the
\* ranks again before it saves them
ResortAndRank ==
    /\ pc = "done"
    /\ pipeline = "database"
    /\ results' = rankBySortedCopy(results)
    /\ pc' = "saved"
    /\ UNCHANGED <<CONFIG, animeList, yearStats, baseline, idx,
                   percentileInYear, adjustedScore, exportData,
                   fetchVars, extVars>>

\* exportToJSON(sortedByAdjusted) of index.ts, after the ranks are saved:
\* the call passes no config, the TypeError goes to the catch of main, which
\* ends the process
ExportSortedToJSON ==
    /\ pc = "saved"
    /\ LET out == exportToJSON(sortByAdjusted(results), << >>)
       IN  IF out.thrown
           THEN exportData' = exportData /\ pc' = "exportFailed"
           ELSE exportData' = out.anime /\ pc' = "exported"
    /\ UNCHANGED <<CONFIG, animeList, yearStats, baseline, results, idx,
                   percentileInYear, adjustedScore, fetchVars, extVars>>

PipelineNext ==
    \/ FetchPage
    \/ FetchPageFails
    \/ ConvertToAnimeData
    \/ FetchAnimeFromDatabase
    \/ ResortAndRank
    \/ ExportSortedToJSON
    \/ Next

PipelineSpec == PipelineInit /\ [][PipelineNext]_vars

-----------------------------------------------------------------------------
(* The background script of the extension and the content scripts *)

\* calls of fetchAdjustedScores: the one at startup and the interval's
MaxFetches == 2

\* runs of applyAdjustedScores
MaxMessages == 2

\* versions of adjusted-scores.json published at the URL
MaxPublished == 2

\* background.js has been loaded: the cache is {}, fetchAdjustedScores() has
\* been called once and awaits fetch, the listener is registered
ExtensionInit ==
    /\ CONFIG = [BASELINE_START_YEAR |-> 2012, BASELINE_END_YEAR |-> 2014]
    /\ animeList = << >>
    /\ pc = "extension"
    /\ yearStats = [y \in {} |-> 0]
    /\ baseline = [scores |-> << >>, median |-> NaN]
    /\ results = << >>
    /\ idx = 0
    /\ percentileInYear = NoPercentile
    /\ adjustedScore = NaN
    /\ exportData = << >>
    /\ pipeline = "none"
    /\ source = << >>
    /\ fetchConfig = NoFetchConfig
    /\ offset = 0
    /\ fetched = << >>
    /\ skipped = 0
    /\ fetchLog = << >>
    /\ adjustedScores = EmptyObject
    /\ published = 1
    /\ calls = <<[phase |-> "fetch", body |-> EmptyObject]>>
    /\ requests = << >>
    /\ extLog = << >>

\* a line of the background script's console: "loaded", "failed" or "sent"
LogEntry(type, payload) == [type |-> type, payload |-> payload]

\* setInterval(fetchAdjustedScores, ...) fires: a new call awaits fetch
FetchAdjustedScores ==
    /\ Len(calls) < MaxFetches
    /\ calls' = Append(calls, [phase |-> "fetch", body |-> EmptyObject])
    /\ UNCHANGED <<calcVars, fetchVars, adjustedScores, published, requests,
                   extLog>>

\* the repository publishes a new adjusted-scores.json
Publish ==
    /\ published < MaxPublished
    /\ published' = published + 1
    /\ UNCHANGED <<calcVars, fetchVars, adjustedScores, calls, requests,
                   extLog>>

\* await fetch(url) resolves with res.ok: the timeout is cleared and the call
\* awaits res.json() of the version served
ResponseOk(i) ==
    /\ calls[i].phase = "fetch"
    /\ calls' = [calls EXCEPT ![i] = [phase |-> "json", body |-> published]]
    /\ UNCHANGED <<calcVars, fetchVars, adjustedScores, published, requests,
                   extLog>>

\* The failure handler that also resets the cache to {}.
FetchFailsAndClears(i) ==
    /\ calls[i].phase = "fetch"
    /\ calls' = [calls EXCEPT ![i].phase = "failed"]
    /\ adjustedScores' = EmptyObject
    /\ extLog' = Append(extLog, LogEntry("failed", EmptyObject))
    /\ UNCHANGED <<calcVars, fetchVars, published, requests>>

\* await fetch(url) rejects (network error, or the abort after 10 seconds) or
\* resolves with a status that is not ok: the catch block logs the error
FetchFails(i) ==
    /\ calls[i].phase = "fetch"
    /\ calls' = [calls EXCEPT ![i].phase = "failed"]
    /\ extLog' = Append(extLog, LogEntry("failed", EmptyObject))
    /\ UNCHANGED <<calcVars, fetchVars, adjustedScores, published, requests>>

\* await res.json() rejects (the body is cut off or is not JSON): the catch
\* block logs the error
JsonFails(i) ==
    /\ calls[i].phase = "json"
    /\ calls' = [calls EXCEPT ![i].phase = "failed"]
    /\ extLog' = Append(extLog, LogEntry("failed", EmptyObject))
    /\ UNCHANGED <<calcVars, fetchVars, adjustedScores, published, requests>>

\* adjustedScores = await res.json()
JsonResolves(i) ==
    /\ calls[i].phase = "json"
    /\ adjustedScores' = calls[i].body
    /\ calls' = [calls EXCEPT ![i].phase = "loaded"]
    /\ extLog' = Append(extLog, LogEntry("loaded", calls[i].body))
    /\ UNCHANGED <<calcVars, fetchVars, published, requests>>

\* applyAdjustedScores of a content script sends {type: "getAdjustedScores"}
ApplyAdjustedScores ==
    /\ Len(requests) < MaxMessages
    /\ requests' = Append(requests, [phase |-> "sent", reply |-> EmptyObject])
    /\ UNCHANGED <<calcVars, fetchVars, adjustedScores, published, calls,
                   extLog>>

\* the onMessage listener: return Promise.resolve(adjustedScores)
OnMessage(j) ==
    /\ requests[j].phase = "sent"
    /\ requests' = [requests EXCEPT
                       ![j] = [phase |-> "replied", reply |-> adjustedScores]]
    /\ extLog' = Append(extLog, LogEntry("sent", adjustedScores))
    /\ UNCHANGED <<calcVars, fetchVars, adjustedScores, published, calls>>

\* applyAdjustedScores continues with the reply: without .anime it warns and
\* returns, otherwise it applies the scores to the page
ReceiveReply(j) ==
    /\ requests[j].phase = "replied"
    /\ requests' = [requests EXCEPT
                       ![j].phase = IF requests[j].reply = EmptyObject
                                    THEN "nodata" ELSE "applied"]
    /\ UNCHANGED <<calcVars, fetchVars, adjustedScores, published, calls,
                   extLog>>

ExtensionNext ==
    \/ FetchAdjustedScores
    \/ Publish
    \/ \E i \in DOMAIN calls : ResponseOk(i)
    \/ \E i \in DOMAIN calls : FetchFails(i)
    \/ \E i \in DOMAIN calls : JsonFails(i)
    \/ \E i \in DOMAIN calls : JsonResolves(i)
    \/ ApplyAdjustedScores
    \/ \E j \in DOMAIN requests : OnMessage(j)
    \/ \E j \in DOMAIN requests : ReceiveReply(j)

ExtensionSpec == ExtensionInit /\ [][ExtensionNext]_vars

-----------------------------------------------------------------------------
(* Properties *)

Done == pc = "done"

\* the item the loop has just processed, once it has processed one
LoopItem == animeList[idx]

AfterItem == pc = "loop" /\ idx >= 1

\* C1. Inflation-only invariant: no item of the output has an adjustedScore
\* above its original score (mean).
C1_InflationOnly ==
    \A k \in DOMAIN results :
        ~NumLess(results[k].mean, results[k].adjustedScore)

\* C2. Rank permutation: the adjustedRank values of the N returned items are
\* exactly 1..N, each claimed by one item, also when adjusted scores tie.
C2_RankPermutation ==
    Done =>
        /\ Len(results) = Len(animeList)
        /\ {results[k].adjustedRank : k \in DOMAIN results}
              = 1..Len(animeList)
        /\ \A j, k \in DOMAIN results :
              results[j].adjustedRank = results[k].adjustedRank => j = k

\* a finished run of at least three items with two tied adjusted scores
C2_Witness ==
    /\ Done
    /\ Len(results) >= 3
    /\ \E j, k \in DOMAIN results :
          /\ j # k
          /\ results[j].adjustedScore # NaN
          /\ results[j].adjustedScore = results[k].adjustedScore


\* a whole-number percentile
Pct(k) == [num |-> k, den |-> 1, low |-> FALSE]

\* C3. Cap invariant: an item at percentile >= 95 and < 99 ends the cap step
\* at or below the 95th-percentile value of the current baseline, an item at
\* percentile >= 99 at or below the baseline's maximum.
C3_CapInvariant ==
    (AfterItem /\ Len(baseline.scores) > 0) =>
        /\ PctGeq(percentileInYear, 99) =>
              NumLeq(adjustedScore,
                     getScoreAtPercentile(baseline.scores, Pct(100)))
        /\ (PctGeq(percentileInYear, 95) /\ ~PctGeq(percentileInYear, 99)) =>
              NumLeq(adjustedScore,
                     getScoreAtPercentile(baseline.scores, Pct(95)))

\* the documented scenario: baseline range 2010 only, 2010 scores
\* [7.0, 7.5, 8.0], 2015 scores [6.0, 6.5, 7.0, 8.0, 8.5], nothing else
ScenarioInput ==
    /\ CONFIG = [BASELINE_START_YEAR |-> 2010, BASELINE_END_YEAR |-> 2010]
    /\ Len(animeList) = 8
    /\ SortAsc(yearAnime(animeList, 2010)) = <<7000, 7500, 8000>>
    /\ SortAsc(yearAnime(animeList, 2015)) = <<6000, 6500, 7000, 8000, 8500>>

ScenarioItem(a) == a.startYear = 2015 /\ a.mean = 8500

\* C4. In the documented scenario the 2015 item scored 8.5 has
\* percentile-in-cohort 80.0, adjusted score 7.8 and score delta -0.7.
C4_Scenario ==
    ScenarioInput =>
        /\ (AfterItem /\ ScenarioItem(LoopItem)) =>
              PctEq(percentileInYear, Pct(80))
        /\ Done =>
              \A k \in DOMAIN results :
                  ScenarioItem(results[k]) =>
                      /\ results[k].adjustedScore = 7800
                      /\ results[k].scoreDifference = -700

\* The reference value-at-percentile, times den * 100: clamp the percentile
\* to [0, 100], position = percentile / 100 * (N - 1), interpolate linearly
\* between the neighbours of the position.
ReferenceScaled(sortedScores, percentile) ==
    LET n == Len(sortedScores)
        d == percentile.den * 100
        clamped == IF percentile.num < 0 THEN 0
                   ELSE IF percentile.num > d THEN d
                   ELSE percentile.num
        q == clamped * (n - 1)
        lower == q \div d
        r == q % d
    IN  IF r = 0 \/ lower + 1 >= n
        THEN d * sortedScores[lower + 1]
        ELSE sortedScores[lower + 1] * (d - r) + sortedScores[lower + 2] * r

\* C5. On a non-empty ascending array getScoreAtPercentile returns the
\* clamped, linearly interpolated value at position percentile/100 * (N-1).
C5_Interpolation ==
    (AfterItem /\ Len(baseline.scores) > 0) =>
        getScoreAtPercentile(baseline.scores, percentileInYear)
            * (percentileInYear.den * 100)
          = ReferenceScaled(baseline.scores, percentileInYear)

\* C6. An item without a year gets percentile 50 and, for a non-empty
\* baseline, is mapped to the baseline's median (calculateMedian returns
\* twice the median).
C6_NullYearMedian ==
    (AfterItem /\ LoopItem.startYear = NULL) =>
        /\ PctEq(percentileInYear, Pct(50))
        /\ Len(baseline.scores) > 0 =>
              /\ adjustedScore # NaN
              /\ 2 * adjustedScore = baseline.median

\* C7. When the baseline range is a single year that has cohort statistics,
\* every item of that year keeps its original score: adjustedScore = mean and
\* scoreDifference = 0.
C7_BaselineYearUnchanged ==
    (/\ Done
     /\ CONFIG.BASELINE_START_YEAR = CONFIG.BASELINE_END_YEAR
     /\ CONFIG.BASELINE_START_YEAR \in DOMAIN yearStats) =>
        \A k \in DOMAIN results :
            results[k].startYear = CONFIG.BASELINE_START_YEAR =>
                /\ results[k].adjustedScore = results[k].mean
                /\ results[k].scoreDifference = 0

\* the number of scores of a sorted array strictly below a value
FullCountBelow(scores, value) ==
    Cardinality({j \in DOMAIN scores : scores[j] < value})

TakesStats(a) == a.startYear # NULL /\ a.startYear \in DOMAIN yearStats

TakesEstimate(a) == a.startYear # NULL /\ a.startYear \notin DOMAIN yearStats

TakesDefault(a) == a.startYear = NULL

\* C8. Percentile source: 100 * count(s < mean) / N over the cohort's sorted
\* scores when the cohort has statistics, estimatePercentile(mean) when the
\* item has a year without statistics, 50 when it has no year; exactly one of
\* the three applies.
C8_PercentileSource ==
    AfterItem =>
        LET a == LoopItem
        IN  /\ TakesStats(a) =>
                  LET scores == yearStats[a.startYear].scores
                  IN  percentileInYear.num * Len(scores)
                        = 100 * FullCountBelow(scores, a.mean)
                              * percentileInYear.den
            /\ TakesEstimate(a) =>
                  PctEq(percentileInYear, estimatePercentile(a.mean))
            /\ TakesDefault(a) => PctEq(percentileInYear, Pct(50))
            /\ Cardinality({b \in {"stats", "estimate", "default"} :
                    \/ b = "stats" /\ TakesStats(a)
                    \/ b = "estimate" /\ TakesEstimate(a)
                    \/ b = "default" /\ TakesDefault(a)}) = 1

\* the loop has processed an input holding items of all three kinds, the
\* last one through the estimator with a result other than the default
C8_Witness ==
    /\ AfterItem
    /\ idx = Len(animeList)
    /\ TakesEstimate(LoopItem)
    /\ ~PctEq(percentileInYear, Pct(50))
    /\ \E k \in DOMAIN animeList : TakesStats(animeList[k])
    /\ \E k \in DOMAIN animeList : TakesDefault(animeList[k])

CohortSize(y) ==
    Cardinality({k \in DOMAIN animeList : animeList[k].startYear = y})

CohortYears == {animeList[k].startYear : k \in DOMAIN animeList} \ {NULL}

\* C9. Cohort threshold: year y has a statistics entry iff at least 10 items
\* have startYear = y; the entry's scores are the ascending multiset of the
\* members' scores and its count is their number.
C9_CohortThreshold ==
    pc # "start" =>
        /\ \A y \in CohortYears \cup DOMAIN yearStats :
              y \in DOMAIN yearStats <=> CohortSize(y) >= 10
        /\ \A y \in DOMAIN yearStats :
              LET scores == yearStats[y].scores
              IN  /\ \A i, j \in DOMAIN scores :
                        i < j => scores[i] <= scores[j]
                  /\ Len(scores) = CohortSize(y)
                  /\ \A v \in Range(scores) :
                        Cardinality({j \in DOMAIN scores : scores[j] = v})
                          = Cardinality({k \in DOMAIN animeList :
                                /\ animeList[k].startYear = y
                                /\ animeList[k].mean = v})
                  /\ yearStats[y].count = Len(scores)
                  /\ yearStats[y].year = y

\* statistics built for an input with a cohort of exactly 9 members (no
\* entry) and a cohort of exactly 10 (an entry)
C9_Witness ==
    /\ pc # "start"
    /\ \E y \in CohortYears : CohortSize(y) = 9 /\ y \notin DOMAIN yearStats
    /\ \E y \in CohortYears : CohortSize(y) = 10 /\ y \in DOMAIN yearStats

InBaselineRange(a) ==
    /\ a.startYear # NULL
    /\ a.startYear >= CONFIG.BASELINE_START_YEAR
    /\ a.startYear <= CONFIG.BASELINE_END_YEAR

\* C10. Empty baseline: when no item lies in the baseline range the run uses
\* the fallback 7.30 as the baseline value, so the baseline median is 7.30
\* and every adjusted score is 7.30 (or the lower original score).
C10_EmptyBaselineFallback ==
    (/\ Done
     /\ Len(animeList) > 0
     /\ \A k \in DOMAIN animeList : ~InBaselineRange(animeList[k])) =>
        /\ baseline.median = 2 * FALLBACK_MEDIAN
        /\ \A k \in DOMAIN results :
              results[k].adjustedScore
                \in {FALLBACK_MEDIAN, Min(FALLBACK_MEDIAN, results[k].mean)}

\* the run has returned its results to the caller; calculateAdjustedScores
\* has no throw statement and its return type is the bare results array, so a
\* normal return is the only way a run ends (what the caller does with the
\* results afterwards, saving and exporting them, may still fail)
Returned == pc \in {"done", "saved", "exported", "exportFailed"}

\* C11. Degenerate baseline is surfaced: a run whose baseline range matches
\* no item does not end in an ordinary return of the results; it ends in a
\* distinct error outcome or carries an explicit flag.
C11_DegenerateBaselineSurfaced ==
    (pc \notin {"start", "baseline"} /\ Len(baseline.scores) = 0)
        => ~Returned

\* C12. Empty input fails fast: a run on an empty item collection never
\* returns an (empty) results collection as a normal result.
C12_EmptyInputFails ==
    Len(animeList) = 0 => ~Returned

\* C13. No corrupt output: every adjustedScore of a returned collection is a
\* defined number within 0.0-10.0, also when the baseline is empty or the
\* percentile lies at either end of the range.
C13_NoCorruptOutput ==
    Returned =>
        \A k \in DOMAIN results :
            /\ results[k].adjustedScore # NaN
            /\ results[k].adjustedScore >= 0
            /\ results[k].adjustedScore <= 10000

\* C14. Output order: the returned collection is in non-increasing
\* adjustedScore order (no item is followed by one with a greater score),
\* adjustedRank is the position plus one, and items with equal adjustedScore
\* keep the relative order they had in the input (ids are input positions).
C14_OutputOrder ==
    Returned =>
        /\ \A k \in DOMAIN results : results[k].adjustedRank = (k - 1) + 1
        /\ \A j, k \in DOMAIN results :
              j < k =>
                  /\ ~NumLess(results[j].adjustedScore,
                              results[k].adjustedScore)
                  /\ results[j].adjustedScore = results[k].adjustedScore
                        => results[j].id < results[k].id

\* a returned collection with two tied items, two items of different
\* adjusted score, and an order that is not the input order
C14_Witness ==
    /\ Returned
    /\ \E j, k \in DOMAIN results :
          /\ j < k
          /\ results[j].adjustedScore # NaN
          /\ results[j].adjustedScore = results[k].adjustedScore
    /\ \E j, k \in DOMAIN results :
          NumLess(results[k].adjustedScore, results[j].adjustedScore)
    /\ \E k \in DOMAIN results : results[k].id # k

\* the sorted score arrays a run has built: one per cohort with statistics,
\* and the baseline when it is not empty
SortedArrays ==
    {yearStats[y].scores : y \in DOMAIN yearStats}
        \cup (IF Len(baseline.scores) > 0 THEN {baseline.scores} ELSE {})

\* the values looked up: every score of the input, and both ends of the scale
ProbeValues == {animeList[k].mean : k \in DOMAIN animeList} \cup {0, 10000}

\* C15. calculatePercentile on a non-empty ascending array S of N scores
\* returns 100 * |{s in S : s < value}| / N: the early-exit scan counts what
\* a full scan counts, scores equal to the value are not counted, and a value
\* equal to the minimum yields 0.
C15_PercentileOfValue ==
    pc \in {"loop", "done"} =>
        \A S \in SortedArrays : \A value \in ProbeValues :
            LET p == calculatePercentile(S, value)
            IN  /\ p.den = Len(S)
                /\ p.num = 100 * FullCountBelow(S, value)
                /\ CountBelow(S, value, 1) = FullCountBelow(S, value)
                /\ value = S[1] => p.num = 0

\* the loop has just taken, from a cohort whose minimum occurs twice, an item
\* scored at that minimum; the cohort also holds a tie above the minimum
C15_Witness ==
    /\ AfterItem
    /\ TakesStats(LoopItem)
    /\ LET S == yearStats[LoopItem.startYear].scores
       IN  /\ LoopItem.mean = S[1]
           /\ S[2] = S[1]
           /\ percentileInYear.num = 0
           /\ \E j \in 3..(Len(S) - 1) : S[j] = S[j + 1] /\ S[j] > S[1]

\* the percentiles looked up: the percentile of every item of the input, and
\* 0, 50, 95, 99 and 100
ProbePercentiles ==
    {percentileOf(yearStats, animeList[k]) : k \in DOMAIN animeList}
        \cup {Pct(0), Pct(50), Pct(95), Pct(99), Pct(100)}

\* C16. Percentile monotonicity: on every non-empty ascending array S, for
\* percentiles p1 < p2 (within 0..100), getScoreAtPercentile(S, p1) <=
\* getScoreAtPercentile(S, p2).
C16_PercentileMonotone ==
    pc \in {"loop", "done"} =>
        \A S \in SortedArrays : \A p1, p2 \in ProbePercentiles :
            PctLess(p1, p2) =>
                NumLeq(getScoreAtPercentile(S, p1),
                       getScoreAtPercentile(S, p2))

\* the loop has mapped an item whose percentile lies strictly between 0 and
\* 100 to a baseline score strictly between the scores at 0 and at 100
C16_Witness ==
    /\ AfterItem
    /\ Len(baseline.scores) >= 3
    /\ PctLess(Pct(0), percentileInYear)
    /\ PctLess(percentileInYear, Pct(100))
    /\ NumLess(getScoreAtPercentile(baseline.scores, Pct(0)),
               getScoreAtPercentile(baseline.scores, percentileInYear))
    /\ NumLess(getScoreAtPercentile(baseline.scores, percentileInYear),
               getScoreAtPercentile(baseline.scores, Pct(100)))

\* the grid of the lookup table: percentiles 0.0, 0.1, ..., 100.0
GridPoints == 0..1000

\* the lookup table of the claim: entry k is the value at percentile k / 10
LookupTable(sortedScores) ==
    [k \in GridPoints |->
        getScoreAtPercentile(sortedScores,
                             [num |-> k, den |-> 10, low |-> FALSE])]

\* Math.round(percentile * 10): the grid point nearest to a percentile
NearestGridPoint(percentile) ==
    (20 * percentile.num + percentile.den) \div (2 * percentile.den)

\* C17. Lookup table: the mapped score of every item is the entry of the
\* 1001-entry percentile-to-score table of the baseline at the item's
\* percentile rounded to the nearest 0.1 (the caps are applied after it).
C17_LookupTable ==
    (AfterItem /\ Len(baseline.scores) > 0) =>
        /\ NearestGridPoint(percentileInYear) \in GridPoints
        /\ adjustedScore =
              applyCaps(LookupTable(baseline.scores)
                            [NearestGridPoint(percentileInYear)],
                        percentileInYear)

\* a percentile within 0..100
InPercentRange(p) ==
    p.den > 0 /\ p.num >= 0 /\ p.num <= 100 * p.den

\* the input item a returned item was made from (ids are input positions)
InputOf(r) == animeList[r.id]

\* C18. Every Adjusted Item carries the percentile-in-cohort that was used to
\* map it, a value in 0..100, and once the export step has run, its exported
\* entry (percentileInYear in adjusted-scores.json) exists and equals that
\* value.
C18_PercentileCarried ==
    Returned =>
        \A k \in DOMAIN results :
            LET used == percentileOf(yearStats, InputOf(results[k]))
            IN  /\ InPercentRange(used)
                /\ "percentileInYear" \in DOMAIN results[k]
                /\ PctEq(results[k].percentileInYear, used)
                /\ pc \in {"exported", "exportFailed"} =>
                      /\ results[k].id \in DOMAIN exportData
                      /\ PctEq(exportData[results[k].id].percentileInYear,
                               used)

\* the source records a pipeline has been served: the nodes of the pages
\* requested, or the rows of the table
Served ==
    IF pipeline = "standalone"
    THEN SubSeq(source, 1, Min(offset, Len(source)))
    ELSE source

ScoringUsersOf(record) ==
    IF pipeline = "standalone" THEN record.num_scoring_users
    ELSE record.numScoringUsers

\* the served records that meet the minimum and have a score
Passing ==
    {i \in DOMAIN Served :
        /\ ScoringUsersOf(Served[i]) >= MIN_SCORING_USERS
        /\ Served[i].mean # NaN}

\* C19. Minimum sample size: every item of the adjusted output of either
\* pipeline has numScoringUsers >= MIN_SCORING_USERS, and the number of ranked
\* items is the number of source records that meet the minimum and have a
\* score.
C19_MinimumSampleSize ==
    (Returned /\ pipeline # "none") =>
        /\ \A k \in DOMAIN results :
              results[k].numScoringUsers >= MIN_SCORING_USERS
        /\ Len(results) = Cardinality(Passing)
        /\ {results[k].id : k \in DOMAIN results}
              = {Served[i].id : i \in Passing}

\* the standalone pipeline has returned after being served a node exactly at
\* the minimum, a node below it and a node without a score
C19_Witness ==
    /\ Returned
    /\ pipeline = "standalone"
    /\ Len(results) >= 1
    /\ \E i \in DOMAIN Served :
          /\ Served[i].num_scoring_users = MIN_SCORING_USERS
          /\ Served[i].mean # NaN
    /\ \E i \in DOMAIN Served :
          Served[i].num_scoring_users < MIN_SCORING_USERS
    /\ \E i \in DOMAIN Served :
          /\ Served[i].num_scoring_users > MIN_SCORING_USERS
          /\ Served[i].mean = NaN

\* the fields of an input item
InputFields == {"id", "mean", "startYear"}

\* an output item restricted to the fields of an input item
InputPart(r) == [f \in InputFields |-> r[f]]

\* C20. Input is never mutated: no step of calculateAdjustedScores (the two
\* builders, the loop, the sort and the rank assignment) changes the input
\* collection, and every output item still agrees with the input item it was
\* copied from.
C20_InputNotMutated ==
    [][/\ animeList' = animeList
       /\ \A k \in DOMAIN results' :
             InputPart(results'[k]) = animeList'[results'[k].id]]_vars

\* a run has returned at least three items in an order other than the input
\* order, from an input whose scores are not ascending, and the input items
\* are where they were, without any output field
C20_Witness ==
    /\ Returned
    /\ Len(animeList) >= 3
    /\ \E k \in DOMAIN results : results[k].id # k
    /\ \E j, k \in DOMAIN animeList :
          j < k /\ animeList[j].mean > animeList[k].mean
    /\ \A k \in DOMAIN animeList :
          /\ animeList[k].id = k
          /\ DOMAIN animeList[k] = InputFields
    /\ \A k \in DOMAIN results : results[k].adjustedRank = k

\* C21. Baseline distribution content: the baseline scores are ascending and
\* are exactly the multiset of the scores of the input items whose year y
\* satisfies BASELINE_START_YEAR <= y <= BASELINE_END_YEAR; items without a
\* year or with a year outside the range contribute nothing.
C21_BaselineContent ==
    pc \notin {"start", "baseline"} =>
        LET S == baseline.scores
            members == {k \in DOMAIN animeList : InBaselineRange(animeList[k])}
        IN  /\ \A i, j \in DOMAIN S : i < j => S[i] <= S[j]
            /\ Len(S) = Cardinality(members)
            /\ \A v \in Range(S) \cup {animeList[k].mean : k \in members} :
                  Cardinality({j \in DOMAIN S : S[j] = v})
                    = Cardinality({k \in members : animeList[k].mean = v})

\* a baseline has been built from an input that is not in score order and
\* holds, next to the members of the range (two of them with the same score,
\* all on a year that is both ends of the range), an item that is no member
C21_Witness ==
    /\ pc \notin {"start", "baseline"}
    /\ CONFIG.BASELINE_START_YEAR = CONFIG.BASELINE_END_YEAR
    /\ Len(baseline.scores) >= 3
    /\ \E j \in 1..(Len(baseline.scores) - 1) :
          baseline.scores[j] = baseline.scores[j + 1]
    /\ \E j, k \in DOMAIN animeList :
          /\ j < k
          /\ InBaselineRange(animeList[j]) /\ InBaselineRange(animeList[k])
          /\ animeList[j].mean > animeList[k].mean
    /\ \E k \in DOMAIN animeList : ~InBaselineRange(animeList[k])

\* lo <= p <= hi for whole numbers lo and hi
PctBetween(p, lo, hi) ==
    p.den > 0 /\ p.num >= lo * p.den /\ p.num <= hi * p.den

\* the percentile range stated for a score
StatedRange(score) ==
    IF score < 6500 THEN <<0, 15>>
    ELSE IF score < 7000 THEN <<15, 30>>
    ELSE IF score < 7500 THEN <<30, 50>>
    ELSE IF score < 8000 THEN <<50, 70>>
    ELSE IF score < 8500 THEN <<70, 85>>
    ELSE <<85, 100>>

\* C22. estimatePercentile maps each score range to the stated percentile
\* range, is non-decreasing in the score with no jump at a breakpoint (a step
\* of 0.01 in the score moves the estimate by at most 0.4, the steepest
\* slope), and stays within 0..100 for every score from 0.00 to 10.00.
C22_EstimateRanges ==
    (AfterItem /\ TakesEstimate(LoopItem)) =>
        LET score == LoopItem.mean
            p == percentileInYear
            q == estimatePercentile(score + 10)
        IN  /\ PctBetween(p, StatedRange(score)[1], StatedRange(score)[2])
            /\ PctBetween(p, 0, 100)
            /\ score + 10 \in ScoreGrid =>
                  /\ ~PctLess(q, p)
                  /\ 5 * (q.num * p.den - p.num * q.den) <= 2 * p.den * q.den

\* the estimate of a score at a breakpoint (8.00) has been taken and is the
\* lower end of its range, one step below the estimate of 8.01
C22_Witness ==
    /\ AfterItem
    /\ TakesEstimate(LoopItem)
    /\ LoopItem.mean = 8000
    /\ PctEq(percentileInYear, Pct(70))
    /\ PctLess(estimatePercentile(7990), percentileInYear)
    /\ PctLess(percentileInYear, estimatePercentile(8010))

\* the k-th value of the ascending ordering of scores
KthSmallest(scores, k) ==
    CHOOSE v \in Range(scores) :
        /\ Cardinality({j \in DOMAIN scores : scores[j] < v}) < k
        /\ k <= Cardinality({j \in DOMAIN scores : scores[j] <= v})

\* twice the median of a non-empty array
TwiceMiddle(scores) ==
    LET n == Len(scores)
    IN  IF n % 2 = 1 THEN 2 * KthSmallest(scores, (n + 1) \div 2)
        ELSE KthSmallest(scores, n \div 2) + KthSmallest(scores, n \div 2 + 1)

\* the scores of the baseline items in the order of the input
BaselineGiven ==
    SelectMeans(animeList,
                {k \in DOMAIN animeList : InBaselineRange(animeList[k])}, 1)

\* C23. calculateMedian returns, for a non-empty array in any order, the
\* middle value of its ascending ordering (odd length) or the mean of the two
\* central values (even length), and fails rather than returning a value for
\* an empty array: a run whose baseline array is empty does not get past the
\* call.
C23_MedianOrFailure ==
    pc \notin {"start", "baseline"} =>
        /\ Len(BaselineGiven) > 0
        /\ baseline.median = TwiceMiddle(BaselineGiven)
        /\ calculateMedian(BaselineGiven) = baseline.median
        /\ \A y \in DOMAIN yearStats :
              /\ yearStats[y].medianScore = TwiceMiddle(yearAnime(animeList, y))
              /\ calculateMedian(yearAnime(animeList, y))
                    = yearStats[y].medianScore

\* C24. Delta consistency: every output item's scoreDifference is the
\* adjusted score minus the original score at two decimals, the adjusted
\* score itself is reported at two decimals, and the reported delta agrees
\* with the two reported scores.
C24_DeltaConsistency ==
    /\ AfterItem =>
          /\ results[idx].adjustedScore = Round2(adjustedScore)
          /\ results[idx].scoreDifference
                = RoundDiff(adjustedScore, LoopItem.mean)
    /\ Returned =>
          \A k \in DOMAIN results :
              /\ results[k].scoreDifference
                    = RoundDiff(results[k].adjustedScore, results[k].mean)
              /\ results[k].adjustedScore # NaN =>
                    results[k].mean + results[k].scoreDifference
                        = results[k].adjustedScore

\* a returned collection with an item moved down, an item moved up and an
\* item left where it was
C24_Witness ==
    /\ Returned
    /\ \E k \in DOMAIN results :
          results[k].adjustedScore # NaN /\ results[k].scoreDifference < 0
    /\ \E k \in DOMAIN results :
          results[k].adjustedScore # NaN /\ results[k].scoreDifference > 0
    /\ \E k \in DOMAIN results :
          results[k].adjustedScore # NaN /\ results[k].scoreDifference = 0

\* C25. Order preservation within a cohort: of two returned items of the same
\* year with statistics and with defined adjusted scores, the one with the
\* lower or equal original score has the lower or equal adjusted score; the
\* caps at the 95th and 99th percentile never put a higher-percentile item
\* below a lower-percentile one.
C25_OrderPreserved ==
    Returned =>
        \A i, j \in DOMAIN results :
            ( /\ results[i].startYear # NULL
              /\ results[i].startYear \in DOMAIN yearStats
              /\ results[i].startYear = results[j].startYear
              /\ results[i].adjustedScore # NaN
              /\ results[i].mean <= results[j].mean )
                => NumLeq(results[i].adjustedScore, results[j].adjustedScore)

\* ceil(maxEntries / limit)
RequestCount(config) ==
    (config.maxEntries + config.limit - 1) \div config.limit

\* requests at offsets 0, limit, 2 * limit, ... with one wait between every
\* two of them
ExpectedFetchLog(config) ==
    [i \in 1..(2 * RequestCount(config) - 1) |->
        IF i % 2 = 1 THEN RequestAt(((i - 1) \div 2) * config.limit)
        ELSE RateLimitWait]

AllRequestsSucceeded ==
    \A i \in DOMAIN fetchLog : fetchLog[i].type # "error"

\* C26. When every page request succeeds, fetchAnimeFromMAL ends after
\* exactly ceil(maxEntries / limit) requests at offsets 0, limit, 2 * limit,
\* ...; a rate-limit wait separates every two consecutive requests and no
\* wait follows the last request.  While the loop runs, what it has done is
\* the beginning of that sequence.
C26_RequestSequence ==
    (pipeline = "standalone" /\ AllRequestsSucceeded) =>
        LET expected == ExpectedFetchLog(fetchConfig)
        IN  /\ Len(fetchLog) <= Len(expected)
            /\ \A i \in DOMAIN fetchLog : fetchLog[i] = expected[i]
            /\ (pc = "fetch" /\ offset < fetchConfig.maxEntries) =>
                  Len(fetchLog) < Len(expected)
            /\ (pc # "fetch" \/ offset >= fetchConfig.maxEntries) =>
                  /\ fetchLog = expected
                  /\ Cardinality({i \in DOMAIN fetchLog :
                                     fetchLog[i].type = "request"})
                        = RequestCount(fetchConfig)
                  /\ fetchLog[Len(fetchLog)].type = "request"

\* fetchAnimeFromMAL has returned after two requests for three entries, two
\* per page, with one wait between them
C26_Witness ==
    /\ pipeline = "standalone"
    /\ pc = "start"
    /\ fetchConfig.limit = 2
    /\ fetchConfig.maxEntries = 3
    /\ fetchLog = <<RequestAt(0), RateLimitWait, RequestAt(2)>>

\* C27. fetchAnimeFromMAL never returns more than maxEntries items, whatever
\* limit, maxEntries and the content of the pages.
C27_AtMostMaxEntries ==
    (pipeline = "standalone" /\ pc \notin {"fetch", "failed"}) =>
        Len(animeList) <= fetchConfig.maxEntries

\* C28. Fetch is all-or-nothing: once a page request has failed, the call
\* has rejected with that error, no further page is requested, the caller
\* has no partial item list, and nothing is adjusted or exported.
C28_AllOrNothing ==
    \A i \in DOMAIN fetchLog :
        fetchLog[i].type = "error" =>
            /\ i = Len(fetchLog)
            /\ fetchLog[i - 1] = RequestAt(fetchLog[i].offset)
            /\ pc = "failed"
            /\ animeList = << >>
            /\ yearStats = [y \in {} |-> 0]
            /\ results = << >>
            /\ exportData = << >>

\* the second page request has failed after a first page that left an item
\* in the list of fetchAnimeFromMAL
C28_Witness ==
    /\ pipeline = "standalone"
    /\ pc = "failed"
    /\ Len(fetched) > 0
    /\ Len(fetchLog) = 4
    /\ fetchLog[4] = ErrorAt(fetchConfig.limit)

\* the payload of the last successful fetch logged before position i, the
\* initial empty object if there is none
LastLoadedBefore(i) ==
    LET loaded == {k \in 1..(i - 1) : extLog[k].type = "loaded"}
    IN  IF loaded = {} THEN EmptyObject
        ELSE extLog[CHOOSE k \in loaded : \A m \in loaded : m <= k].payload

\* C29. At any interleaving of fetches and content-script requests, the reply
\* to a getAdjustedScores message is the initial empty object or the complete
\* payload of the most recent successful fetch, and so is the cache: a fetch
\* that fails, times out or gets a status that is not ok leaves it unchanged.
C29_CacheReplies ==
    /\ \A i \in DOMAIN extLog :
          extLog[i].type = "sent" =>
              /\ extLog[i].payload = LastLoadedBefore(i)
              /\ extLog[i].payload \in {EmptyObject} \cup (1..MaxPublished)
    /\ adjustedScores = LastLoadedBefore(Len(extLog) + 1)
    /\ \A j \in DOMAIN requests :
          requests[j].phase \in {"replied", "nodata", "applied"} =>
              \E i \in DOMAIN extLog :
                  /\ extLog[i].type = "sent"
                  /\ extLog[i].payload = requests[j].reply

\* a reply with the empty object, then a successful fetch of the first
\* version, then a fetch that started later and failed, then a reply with the
\* first version while a newer version is published
C29_Witness ==
    /\ published = 2
    /\ Len(extLog) = 4
    /\ extLog[1] = LogEntry("sent", EmptyObject)
    /\ extLog[2] = LogEntry("loaded", 1)
    /\ extLog[3] = LogEntry("failed", EmptyObject)
    /\ extLog[4] = LogEntry("sent", 1)
    /\ calls[1].phase = "loaded"
    /\ requests[2].phase = "applied"

\* C30. Re-ranking is idempotent: sorting the returned collection again by
\* adjustedScore descending and assigning adjustedRank = index + 1, as the
\* database pipeline does before it saves and exports, leaves the order and
\* every item's adjustedRank unchanged, and the collection handed to the
\* export step carries, item by item, the rank calculateAdjustedScores gave
\* (every entry that is written has that rank).
C30_RerankIdempotent ==
    [][/\ (pc = "done" /\ pc' = "saved") =>
             /\ results' = results
             /\ sortByAdjusted(results) = results
             /\ \A k \in DOMAIN results : results'[k].adjustedRank = k
       /\ (pc = "saved" /\ pc' \in {"exported", "exportFailed"}) =>
             /\ sortByAdjusted(results) = results
             /\ \A k \in DOMAIN results :
                   /\ results[k].adjustedRank = k
                   /\ exportEntry(results[k]).adjustedRank = k
                   /\ pc' = "exported" =>
                         /\ results[k].id \in DOMAIN exportData'
                         /\ exportData'[results[k].id].adjustedRank = k]_vars

\* the database pipeline has saved three items and handed them to the export
\* step, two of them with the same adjusted score, returned in an order other
\* than that of the table
C30_Witness ==
    /\ pipeline = "database"
    /\ pc = "exportFailed"
    /\ Len(results) = 3
    /\ \E j, k \in DOMAIN results :
          j # k /\ results[j].adjustedScore = results[k].adjustedScore
    /\ \E j, k \in DOMAIN results :
          NumLess(results[j].adjustedScore, results[k].adjustedScore)
    /\ \E j, k \in DOMAIN animeList :
          /\ j < k
          /\ \E m, n \in DOMAIN results :
                /\ m > n
                /\ results[m].id = animeList[j].id
                /\ results[n].id = animeList[k].id

====
